---- MODULE Spec2Model ----
(***************************************************************************)
(* Model of analyze_cmt.py: an audit of Salesforce Custom Metadata Types.  *)
(* The script describes each object, keeps the custom fields whose         *)
(* declared size exceeds limit_map, queries the records of those fields    *)
(* and aggregates per (object, field) the longest and shortest observed    *)
(* value length and the number of observations.                            *)
(*                                                                         *)
(* Python values that may be None are modelled as a sequence of length at  *)
(* most one: None is <<>> and a present value v is <<v>>.  A dict whose    *)
(* keys may be missing is a record whose DOMAIN holds the keys present.    *)
(* An insertion-ordered dict is a sequence of [key, value] items with      *)
(* pairwise distinct keys.                                                 *)
(***************************************************************************)
EXTENDS Integers, Sequences, FiniteSets, Bags, TLC

VARIABLES
    pc,                 \* position of the modelled function / of main()
    exception,          \* the uncaught exception, None while there is none
    exit_status,        \* exit status of the process, None while running
    args,               \* parsed command line: f, l, c, m
    mdt_list,           \* main(): the selected objects
    described,          \* main(): number of objects of mdt_list described
    results_map,        \* ordered dict: object name -> classified fields
    planned,            \* generate_sf_queries: number of items visited
    queries,            \* the planned queries
    executed,           \* main(): number of queries executed
    results_of_queries, \* main(): the parsed responses kept
    fields,             \* sObject_get_describe: data.get('fields', [])
    idx,                \* sObject_get_describe: number of fields visited
    field_information,  \* sObject_get_describe: the accumulated output
    stats,              \* analyze_field_lengths: the usage report
    record,             \* analyze_field_lengths: the record last processed
    seen,               \* bag of the records processed so far
    batches,            \* analyze_field_lengths: number of batches visited
    emitted,            \* the report emitters that ran
    failures            \* the external-call failures met so far

vars == <<pc, exception, exit_status, args, mdt_list, described, results_map,
          planned, queries, executed, results_of_queries, fields, idx,
          field_information, stats, record, seen, batches, emitted, failures>>

-----------------------------------------------------------------------------
(* Bounds of the model. *)

MaxFields == 2    \* fields in one describe response
MaxObjects == 2   \* objects in one classified schema
MaxRecords == 2   \* records aggregated in one run
MaxBatches == 2   \* batches aggregated in one run

-----------------------------------------------------------------------------
(* Python helpers. *)

None == <<>>

Some(v) == <<v>>

\* dict.get(key): the value under key, None when the key is missing
Get(d, key) == IF key \in DOMAIN d THEN Some(d[key]) ELSE None

Max(a, b) == IF a >= b THEN a ELSE b

Min(a, b) == IF a <= b THEN a ELSE b

\* str.endswith
EndsWith(s, suffix) ==
    /\ Len(s) >= Len(suffix)
    /\ SubSeq(s, Len(s) - Len(suffix) + 1, Len(s)) = suffix

KeySet(d) == {d[k].key : k \in 1..Len(d)}

\* d.get(key, default) of an ordered dict
DictGet(d, key, default) ==
    IF key \in KeySet(d)
    THEN d[CHOOSE k \in 1..Len(d) : d[k].key = key].value
    ELSE default

\* d[key] = value of an ordered dict: a present key keeps its position
DictSet(d, key, value) ==
    IF key \in KeySet(d)
    THEN [k \in 1..Len(d) |->
            IF d[k].key = key THEN [key |-> key, value |-> value] ELSE d[k]]
    ELSE Append(d, [key |-> key, value |-> value])

-----------------------------------------------------------------------------
(* Limit Policy and Schema Classifier: sObject_get_describe. *)

limit_map ==
    [t \in {"string", "double"} |->
        IF t = "string" THEN <<"length", 250>> ELSE <<"precision", 10>>]

\* the dict appended to field_information for one field
FieldInfo(field) ==
    [name          |-> Get(field, "name"),
     length        |-> Get(field, "length"),
     type          |-> Get(field, "type"),
     digits        |-> Get(field, "type"),
     precision     |-> Get(field, "precision"),
     extraTypeInfo |-> Get(field, "extraTypeInfo")]

\* field.get('custom') is True and field.get('type') in limit_map
InPolicy(field) ==
    /\ Get(field, "custom") = Some(TRUE)
    /\ Get(field, "type") # None
    /\ field.type \in DOMAIN limit_map

\* field_length = field.get(field_for_length)
FieldLength(field) == Get(field, limit_map[field.type][1])

OverLimitGE(field_length, field_type) ==
    field_length[1] >= limit_map[field_type][2]

\* field_length > limit_map.get(field_type)[1], for a field_length not None
OverLimit(field_length, field_type) ==
    field_length[1] > limit_map[field_type][2]

\* One iteration of the field loop.  Comparing None with an int raises
\* TypeError, which the function does not catch.
ClassifyStep(info, field) ==
    IF ~InPolicy(field)
    THEN [exc |-> None, info |-> info]
    ELSE IF FieldLength(field) = None
    THEN [exc |-> Some("TypeError"), info |-> info]
    ELSE IF OverLimit(FieldLength(field), field.type)
    THEN [exc |-> None, info |-> Append(info, FieldInfo(field))]
    ELSE [exc |-> None, info |-> info]

RECURSIVE ClassifyFrom(_, _, _)
ClassifyFrom(fs, k, info) ==
    IF k > Len(fs)
    THEN [exc |-> None, info |-> info]
    ELSE LET r == ClassifyStep(info, fs[k])
         IN  IF r.exc # None THEN r ELSE ClassifyFrom(fs, k + 1, r.info)

\* the whole field loop: the returned field_information or the exception
ClassifyFields(fs) == ClassifyFrom(fs, 1, <<>>)

\* The field metadata the describe service may return for the field at
\* position k of a response.
FieldName(k) == "F" \o ToString(k) \o "__c"

FieldTypes == {"string", "double", "picklist"}

ExtraTypeInfoOf(t) ==
    IF t = "string" THEN "plaintextarea" ELSE IF t = "double" THEN "" ELSE "picklist"

DescribedFields(k) ==
    LET base == {[name |-> FieldName(k), custom |-> c, type |-> t,
                  extraTypeInfo |-> ExtraTypeInfoOf(t)] :
                    c \in BOOLEAN, t \in FieldTypes}
        withLength == base \cup {b @@ [length |-> n] : b \in base, n \in {250, 251}}
    IN  withLength \cup {b @@ [precision |-> n] : b \in withLength, n \in {10, 11}}

\* every response of at most n fields
RECURSIVE FieldLists(_)
FieldLists(n) ==
    IF n = 0 THEN {<<>>}
    ELSE LET shorter == FieldLists(n - 1)
         IN  shorter \cup {Append(fs, f) : fs \in {s \in shorter : Len(s) = n - 1},
                                            f \in DescribedFields(n)}

-----------------------------------------------------------------------------
(* Statistics Aggregator: analyze_field_lengths. *)

\* JSON scalars of a record: null, a string, an integer
JNull == [null |-> TRUE]

JStr(s) == [str |-> s]

JInt(n) == [int |-> n]

Digit(d) == SubSeq("0123456789", d + 1, d + 1)

RECURSIVE NatToStr(_)
NatToStr(n) == IF n < 10 THEN Digit(n) ELSE NatToStr(n \div 10) \o Digit(n % 10)

\* str(value) of a value that is not None
Str(value) ==
    IF "str" \in DOMAIN value THEN value.str
    ELSE IF value.int < 0 THEN "-" \o NatToStr(-value.int)
    ELSE NatToStr(value.int)

\* value_length = len(str(value)) if value is not None else 0
ValueLength(value) == IF value = JNull THEN 0 ELSE Len(Str(value))

CmdNameIgnoringType(rec) == "Unknown"

\* cmd_name: the record's attributes.type, "Unknown" when it has none
CmdName(rec) ==
    IF "attributes" \in DOMAIN rec /\ "type" \in DOMAIN rec.attributes
    THEN rec.attributes.type
    ELSE "Unknown"

\* the first descriptor of all_fields named field, None when there is none
FindField(all_fields, field) ==
    IF \E k \in 1..Len(all_fields) : all_fields[k].name = Some(field)
    THEN Some(all_fields[CHOOSE k \in 1..Len(all_fields) :
                /\ all_fields[k].name = Some(field)
                /\ \A j \in 1..(k - 1) : all_fields[j].name # Some(field)])
    ELSE None

\* extraTypeInfo label of the descriptor found
TypeLabel(found) ==
    IF found = None THEN ""
    ELSE IF found[1].extraTypeInfo = Some("externallookup") THEN "Lookup"
    ELSE IF found[1].extraTypeInfo = Some("plaintextarea") THEN "TextArea"
    ELSE ""

\* current_field_length of the descriptor found
DeclaredLength(found) ==
    IF found = None THEN Some(0)
    ELSE IF found[1].type = Some("string") THEN found[1].length
    ELSE IF found[1].type = Some("double") THEN found[1].precision
    ELSE Some(0)

\* stats[cmd_name][field] when the field is met for the first time
FirstStat(value_length, found) ==
    [longest       |-> value_length,
     shortest      |-> value_length,
     count         |-> 1,
     field_length  |-> DeclaredLength(found),
     extraTypeInfo |-> TypeLabel(found)]

NextStatSwapped(stat, value_length) ==
    [stat EXCEPT !.longest  = Min(stat.longest, value_length),
                 !.shortest = Max(stat.shortest, value_length),
                 !.count    = stat.count + 1]

NextStatSkippingEmpty(stat, value_length) ==
    [stat EXCEPT !.longest  = Max(stat.longest, value_length),
                 !.shortest = Min(stat.shortest, value_length),
                 !.count    = IF value_length = 0 THEN stat.count ELSE stat.count + 1]

\* stats[cmd_name][field] when the field was met before
NextStat(stat, value_length) ==
    [stat EXCEPT !.longest  = Max(stat.longest, value_length),
                 !.shortest = Min(stat.shortest, value_length),
                 !.count    = stat.count + 1]

\* the body of the record loop: the stats after one record
AnalyzeRecord(st, rec, rmap) ==
    LET cmd_name   == CmdName(rec)
        of_object  == IF cmd_name \in DOMAIN st THEN st[cmd_name] ELSE <<>>
        present    == DOMAIN rec \ {"attributes"}
        all_fields == DictGet(rmap, cmd_name, <<>>)
        updated    ==
            [field \in DOMAIN of_object \cup present |->
                IF field \notin present THEN of_object[field]
                ELSE IF field \notin DOMAIN of_object
                THEN FirstStat(ValueLength(rec[field]), FindField(all_fields, field))
                ELSE NextStat(of_object[field], ValueLength(rec[field]))]
    IN  [o \in DOMAIN st \cup {cmd_name} |-> IF o = cmd_name THEN updated ELSE st[o]]

\* 'result' in result and 'records' in result['result']
ValidFormat(result) ==
    /\ "result" \in DOMAIN result
    /\ "records" \in DOMAIN result.result

RECURSIVE AnalyzeRecords(_, _, _, _)
AnalyzeRecords(st, records, k, rmap) ==
    IF k > Len(records) THEN st
    ELSE AnalyzeRecords(AnalyzeRecord(st, records[k], rmap), records, k + 1, rmap)

RECURSIVE AnalyzeFrom(_, _, _, _)
AnalyzeFrom(st, query_results, k, rmap) ==
    IF k > Len(query_results) THEN st
    ELSE IF ~ValidFormat(query_results[k])
    THEN AnalyzeFrom(st, query_results, k + 1, rmap)
    ELSE AnalyzeFrom(AnalyzeRecords(st, query_results[k].result.records, 1, rmap),
                     query_results, k + 1, rmap)

\* analyze_field_lengths(query_results, results_map)
AnalyzeFieldLengths(query_results, rmap) == AnalyzeFrom(<<>>, query_results, 1, rmap)

-----------------------------------------------------------------------------
(* Query Planner: generate_sf_queries. *)

\* a non-empty string
Truthy(name) == name # None /\ name[1] # ""

\* the names joined into the SELECT list, and the object queried
Query(mdt, flagged) ==
    [select |-> SelectSeq([k \in 1..Len(flagged) |-> flagged[k].name], Truthy),
     from   |-> mdt]

PlanStepUnguarded(qs, item) == Append(qs, Query(item.key, item.value))

\* one iteration of the loop over results_map.items()
PlanStep(qs, item) ==
    IF item.value # <<>> THEN Append(qs, Query(item.key, item.value)) ELSE qs

RECURSIVE PlanFrom(_, _, _)
PlanFrom(qs, rmap, k) ==
    IF k > Len(rmap) THEN qs ELSE PlanFrom(PlanStep(qs, rmap[k]), rmap, k + 1)

\* generate_sf_queries(results_map)
GenerateSfQueries(rmap) == PlanFrom(<<>>, rmap, 1)

-----------------------------------------------------------------------------
(* Responses of the external services used as inputs. *)

ObjectNames == {"A__mdt", "B__mdt", "C__mdt"}

TextArea300 ==
    [name |-> "F1__c", custom |-> TRUE, type |-> "string", length |-> 300,
     precision |-> 0, extraTypeInfo |-> "plaintextarea"]

Lookup255 ==
    [name |-> "F1__c", custom |-> TRUE, type |-> "string", length |-> 255,
     precision |-> 0, extraTypeInfo |-> "externallookup"]

Number18 ==
    [name |-> "F2__c", custom |-> TRUE, type |-> "double", length |-> 0,
     precision |-> 18]

Short80 ==
    [name |-> "F3__c", custom |-> TRUE, type |-> "string", length |-> 80,
     precision |-> 0, extraTypeInfo |-> "plaintextarea"]

StandardLabel ==
    [name |-> "Label", custom |-> FALSE, type |-> "string", length |-> 300,
     precision |-> 0]

NoLength ==
    [name |-> "F4__c", custom |-> TRUE, type |-> "string", precision |-> 0]

\* 'fields' arrays whose classification returns
DescribeResponses ==
    {<<>>, <<Short80, StandardLabel>>, <<Lookup255>>, <<TextArea300, Number18>>}

\* the field lists sObject_get_describe returns for them
ClassifiedLists == {ClassifyFields(fs).info : fs \in DescribeResponses}

\* every ordered dict of at most n objects and their classified fields
RECURSIVE ClassifiedSchemas(_)
ClassifiedSchemas(n) ==
    IF n = 0 THEN {<<>>}
    ELSE LET shorter == ClassifiedSchemas(n - 1)
         IN  shorter \cup
             UNION {{DictSet(d, o, v) : o \in ObjectNames \ KeySet(d),
                                        v \in ClassifiedLists} :
                    d \in {c \in shorter : Len(c) = n - 1}}

-----------------------------------------------------------------------------
(* Values of the variables a specification does not use. *)

MainIdle ==
    /\ args = None
    /\ mdt_list = <<>>
    /\ described = 0
    /\ executed = 0
    /\ results_of_queries = <<>>
    /\ emitted = {}
    /\ failures = {}
    /\ exit_status = None

ClassifierIdle ==
    /\ fields = <<>>
    /\ idx = 0
    /\ field_information = <<>>

PlannerIdle ==
    /\ results_map = <<>>
    /\ planned = 0
    /\ queries = <<>>

AggregatorIdle ==
    /\ stats = <<>>
    /\ record = None
    /\ seen = EmptyBag
    /\ batches = 0

mainVars == <<args, mdt_list, described, executed, results_of_queries,
              emitted, failures, exit_status>>

classifierVars == <<fields, idx, field_information>>

plannerVars == <<results_map, planned, queries>>

aggregatorVars == <<stats, record, seen, batches>>

-----------------------------------------------------------------------------
(* The field loop of sObject_get_describe over every response of at most   *)
(* MaxFields fields.                                                       *)

InitClassify ==
    /\ pc = "classify"
    /\ exception = None
    /\ fields \in FieldLists(MaxFields)
    /\ idx = 0
    /\ field_information = <<>>
    /\ MainIdle /\ PlannerIdle /\ AggregatorIdle

\* one iteration: the next field is skipped, appended, or raises TypeError
ClassifyField ==
    /\ pc = "classify"
    /\ idx < Len(fields)
    /\ LET r == ClassifyStep(field_information, fields[idx + 1])
       IN  IF r.exc = None
           THEN /\ idx' = idx + 1
                /\ field_information' = r.info
                /\ UNCHANGED <<pc, exception>>
           ELSE /\ pc' = "crashed"
                /\ exception' = r.exc
                /\ UNCHANGED <<idx, field_information>>
    /\ UNCHANGED <<fields, mainVars, plannerVars, aggregatorVars>>

\* return top_level_name, field_information
ClassifyReturn ==
    /\ pc = "classify"
    /\ idx = Len(fields)
    /\ pc' = "returned"
    /\ UNCHANGED <<exception, classifierVars, mainVars, plannerVars, aggregatorVars>>

NextClassify == ClassifyField \/ ClassifyReturn

SpecClassify == InitClassify /\ [][NextClassify]_vars

\* the fields the claim C1 describes
Flagged(f) ==
    /\ "custom" \in DOMAIN f
    /\ f.custom = TRUE
    /\ \/ f.type = "string" /\ "length" \in DOMAIN f /\ f.length > 250
       \/ f.type = "double" /\ "precision" \in DOMAIN f /\ f.precision > 10

NamesOf(fs) == [k \in 1..Len(fs) |-> fs[k].name]

\* C1: at every point of the field loop, and so on return, the output holds
\* exactly the fields visited that are custom, of type 'string' with
\* length > 250 or of type 'double' with precision > 10, in source order,
\* each with the attributes of its source field.
C1_ClassifierOutput ==
    /\ NamesOf(field_information) =
            [k \in 1..Len(SelectSeq(SubSeq(fields, 1, idx), Flagged)) |->
                Some(SelectSeq(SubSeq(fields, 1, idx), Flagged)[k].name)]
    /\ \A k \in 1..Len(field_information) :
         \E j \in 1..idx :
            /\ Flagged(fields[j])
            /\ field_information[k].name = Some(fields[j].name)
            /\ field_information[k].type = Some(fields[j].type)
            /\ field_information[k].length = Get(fields[j], "length")
            /\ field_information[k].precision = Get(fields[j], "precision")

\* C1 witness: a returned output that kept one field and dropped another,
\* the input holding a custom string of length exactly 250.
C1_Witness ==
    /\ pc = "returned"
    /\ Len(field_information) >= 1
    /\ Len(field_information) < Len(fields)
    /\ \E k \in 1..Len(fields) :
          /\ fields[k].custom = TRUE
          /\ fields[k].type = "string"
          /\ "length" \in DOMAIN fields[k]
          /\ fields[k].length = 250

\* a custom field of a policy-known type without its designated attribute
MissingDesignated(f) ==
    /\ "custom" \in DOMAIN f
    /\ f.custom = TRUE
    /\ \/ f.type = "string" /\ "length" \notin DOMAIN f
       \/ f.type = "double" /\ "precision" \notin DOMAIN f

\* C7: a custom field of a policy-known type whose designated attribute is
\* missing is omitted, the loop goes on and no error is raised: a response
\* holding such a field never ends in an uncaught exception.
C7_MissingAttributeSkipped ==
    (\E k \in 1..Len(fields) : MissingDesignated(fields[k]))
        => (pc # "crashed" /\ exception = None)

-----------------------------------------------------------------------------
(* generate_sf_queries over every classified schema of at most MaxObjects  *)
(* objects.                                                                *)

InitPlanner ==
    /\ pc = "plan"
    /\ exception = None
    /\ results_map \in ClassifiedSchemas(MaxObjects)
    /\ planned = 0
    /\ queries = <<>>
    /\ MainIdle /\ ClassifierIdle /\ AggregatorIdle

\* one iteration of the loop over results_map.items()
PlanObject ==
    /\ pc = "plan"
    /\ planned < Len(results_map)
    /\ queries' = PlanStep(queries, results_map[planned + 1])
    /\ planned' = planned + 1
    /\ UNCHANGED <<pc, exception, results_map, mainVars, classifierVars, aggregatorVars>>

\* return queries
PlanReturn ==
    /\ pc = "plan"
    /\ planned = Len(results_map)
    /\ pc' = "returned"
    /\ UNCHANGED <<exception, plannerVars, mainVars, classifierVars, aggregatorVars>>

NextPlanner == PlanObject \/ PlanReturn

SpecPlanner == InitPlanner /\ [][NextPlanner]_vars

\* the objects among the first n items whose classified field list is not empty
WithFields(n) == {k \in 1..n : Len(results_map[k].value) >= 1}

\* C4: the planner emits exactly one query per object whose classified
\* field list is non-empty and none for an object whose list is empty; the
\* number of queries is the number of objects with a flagged field.
C4_OneQueryPerFlaggedObject ==
    /\ Len(queries) = Cardinality(WithFields(planned))
    /\ \A k \in 1..planned :
         Cardinality({q \in 1..Len(queries) : queries[q].from = results_map[k].key})
            = IF Len(results_map[k].value) >= 1 THEN 1 ELSE 0

\* C4 witness: a schema of two objects, one with flagged fields and one
\* without, planned into exactly one query.
C4_Witness ==
    /\ pc = "returned"
    /\ Len(results_map) = 2
    /\ Cardinality(WithFields(2)) = 1
    /\ Len(queries) = 1

-----------------------------------------------------------------------------
(* analyze_field_lengths over at most MaxBatches batches holding at most   *)
(* MaxRecords records in all.  The records of a batch are drawn one at a   *)
(* time as the record loop reaches them; seen keeps the records processed. *)

\* the classified schemas the aggregator is run against
AggregatorSchemas ==
    {<<>>,
     DictSet(<<>>, "A__mdt", ClassifyFields(<<Lookup255>>).info),
     DictSet(DictSet(<<>>, "A__mdt", ClassifyFields(<<TextArea300, Number18>>).info),
             "B__mdt", ClassifyFields(<<Lookup255>>).info)}

\* the payloads a batch may be, its records left out
BatchPayloads ==
    {[status |-> 1, name |-> "INVALID_FIELD"],
     [status |-> 0, result |-> [totalSize |-> 0]],
     [status |-> 0, result |-> [totalSize |-> 1, records |-> <<>>]]}

\* the records of a query response
Records ==
    LET attrs  == {[attributes |-> a] :
                     a \in {[type |-> "A__mdt"], [type |-> "B__mdt"],
                            [url |-> "/services/data"]}}
        tagged == attrs \cup {[Id |-> JStr("m00")]}
        withF1 == tagged \cup {r @@ [F1__c |-> v] : r \in tagged,
                                 v \in {JNull, JStr("abc"), JStr("abcdef")}}
    IN  withF1 \cup {r @@ [F2__c |-> JInt(1234567)] : r \in withF1}

InitAggregate ==
    /\ pc = "batch"
    /\ exception = None
    /\ results_map \in AggregatorSchemas
    /\ planned = 0
    /\ queries = <<>>
    /\ AggregatorIdle
    /\ MainIdle /\ ClassifierIdle

\* for result in query_results: a batch of invalid format is skipped
AnalyzeBatch ==
    /\ pc = "batch"
    /\ batches < MaxBatches
    /\ \E result \in BatchPayloads :
          pc' = IF ValidFormat(result) THEN "records" ELSE "batch"
    /\ batches' = batches + 1
    /\ UNCHANGED <<exception, stats, record, seen, plannerVars, mainVars, classifierVars>>

\* for record in records: the body of the loop for one record
AnalyzeNextRecord ==
    /\ pc = "records"
    /\ BagCardinality(seen) < MaxRecords
    /\ \E rec \in Records :
          /\ record' = Some(rec)
          /\ stats' = AnalyzeRecord(stats, rec, results_map)
          /\ seen' = seen (+) SetToBag({rec})
    /\ UNCHANGED <<pc, exception, batches, plannerVars, mainVars, classifierVars>>

\* the records of the batch are exhausted
AnalyzeEndBatch ==
    /\ pc = "records"
    /\ pc' = "batch"
    /\ UNCHANGED <<exception, aggregatorVars, plannerVars, mainVars, classifierVars>>

\* return stats
AnalyzeReturn ==
    /\ pc = "batch"
    /\ pc' = "returned"
    /\ UNCHANGED <<exception, aggregatorVars, plannerVars, mainVars, classifierVars>>

NextAggregate ==
    AnalyzeBatch \/ AnalyzeNextRecord \/ AnalyzeEndBatch \/ AnalyzeReturn

SpecAggregate == InitAggregate /\ [][NextAggregate]_vars

\* the pairs of the report
InReport(o, f) == o \in DOMAIN stats /\ f \in DOMAIN stats[o]

\* C2: after every record update every FieldUsageStat of the report has
\* longest >= shortest >= 0, null values counting as length 0.
C2_LongestShortest ==
    \A o \in DOMAIN stats : \A f \in DOMAIN stats[o] :
        /\ stats[o][f].longest >= stats[o][f].shortest
        /\ stats[o][f].shortest >= 0

\* C2 witness: a field observed once as null and once as a non-empty value.
C2_Witness ==
    /\ \E r \in BagToSet(seen) : "F1__c" \in DOMAIN r /\ r.F1__c = JNull
    /\ \E o \in DOMAIN stats :
          /\ "F1__c" \in DOMAIN stats[o]
          /\ stats[o].F1__c.count = 2
          /\ stats[o].F1__c.shortest = 0
          /\ stats[o].F1__c.longest > 0

\* the object a record is tagged with
TagOf(r) ==
    IF "attributes" \notin DOMAIN r THEN "Unknown"
    ELSE IF "type" \notin DOMAIN r.attributes THEN "Unknown"
    ELSE r.attributes.type

\* the fields a record contains
FieldsOf(r) == DOMAIN r \ {"attributes"}

RECURSIVE Copies(_)
Copies(rs) ==
    IF rs = {} THEN 0
    ELSE LET r == CHOOSE x \in rs : TRUE
         IN  CopiesIn(r, seen) + Copies(rs \ {r})

\* the number of records processed that are tagged o and contain f
Observations(o, f) ==
    Copies({r \in BagToSet(seen) : TagOf(r) = o /\ f \in FieldsOf(r)})

AllTags == {"Unknown"} \cup {TagOf(r) : r \in Records} \cup DOMAIN stats

AllFields ==
    UNION {FieldsOf(r) : r \in Records} \cup UNION {DOMAIN stats[o] : o \in DOMAIN stats}

\* C3: a pair (object, field) is in the report iff at least one record
\* processed is tagged with the object and contains the field, and its count
\* is the number of such records; nothing processed gives an empty report.
C3_CountIsObservations ==
    \A o \in AllTags : \A f \in AllFields :
        /\ InReport(o, f) <=> Observations(o, f) >= 1
        /\ InReport(o, f) => stats[o][f].count = Observations(o, f)

\* C3 witness: a pair counted twice, one of its values being null.
C3_Witness ==
    /\ pc = "returned"
    /\ \E o \in DOMAIN stats : \E f \in DOMAIN stats[o] :
          /\ stats[o][f].count = 2
          /\ stats[o][f].shortest = 0

\* the FieldUsageStat of a pair, None when the pair is not in the report
EntryOf(o, f) == IF InReport(o, f) THEN Some(stats[o][f]) ELSE None

\* C10: processing one record tagged A changes only the entries (A, f) of
\* the fields f the record contains, and leaves the field_length and the
\* extraTypeInfo of an entry that existed as they were.
C10_RecordFrame ==
    [][BagCardinality(seen') = BagCardinality(seen) + 1 =>
         \A o \in AllTags \cup DOMAIN stats' : \A f \in AllFields :
            /\ (o # TagOf(record'[1]) \/ f \notin FieldsOf(record'[1]))
                  => EntryOf(o, f)' = EntryOf(o, f)
            /\ InReport(o, f)
                  => /\ InReport(o, f)'
                     /\ stats'[o][f].field_length = stats[o][f].field_length
                     /\ stats'[o][f].extraTypeInfo = stats[o][f].extraTypeInfo]_vars

\* C10 witness: the same field name reported under two objects with
\* different declared limits, the record last processed being tagged with
\* one of them.
C10_Witness ==
    /\ record # None
    /\ TagOf(record[1]) = "A__mdt"
    /\ InReport("A__mdt", "F1__c")
    /\ InReport("B__mdt", "F1__c")
    /\ stats["A__mdt"]["F1__c"].field_length = Some(300)
    /\ stats["B__mdt"]["F1__c"].field_length = Some(255)
    /\ stats["A__mdt"]["F1__c"].extraTypeInfo = "TextArea"
    /\ stats["B__mdt"]["F1__c"].extraTypeInfo = "Lookup"

-----------------------------------------------------------------------------
(* main(): the whole run, every external call answering with one of the    *)
(* outcomes its service can give.                                          *)

\* Python values whose type the callers depend on
PyList(items) == [kind |-> "list", items |-> items]

PyTuple(items) == [kind |-> "tuple", items |-> items]

PyDict(d) == [kind |-> "dict", dict |-> d]

\* a function that returned value, or raised exc
Returned(value) == [exc |-> None, value |-> value]

Raised(exc) == [exc |-> Some(exc), value |-> None]

\* get_all_objects_from_org(), process being the finished listing command
GetAllObjectsFromOrg(process) ==
    IF process.returncode # 0 THEN PyList(<<>>)
    ELSE IF Get(process.data, "status") # Some(0) THEN PyList(<<>>)
    ELSE PyDict(process.data)

\* record.get('fullName', '').endswith('__mdt')
IsCmdt(rec) == "fullName" \in DOMAIN rec /\ EndsWith(rec.fullName, "__mdt")

FullNameOf(rec) == rec.fullName

\* filter_cmdt_out(json): a list has no attribute 'get'
FilterCmdtOut(json) ==
    IF json.kind # "dict" THEN Raised("AttributeError")
    ELSE LET result == IF "result" \in DOMAIN json.dict THEN json.dict.result ELSE <<>>
             kept   == SelectSeq(result, IsCmdt)
         IN  Returned([k \in 1..Len(kept) |-> FullNameOf(kept[k])])

\* sObject_get_describe(sObject), process being the finished describe command
SObjectGetDescribe(process) ==
    IF process.returncode # 0 THEN Returned(PyList(<<>>))
    ELSE LET data       == process.data
             classified ==
                ClassifyFields(IF "fields" \in DOMAIN data THEN data.fields ELSE <<>>)
         IN  IF classified.exc # None THEN Raised(classified.exc[1])
             ELSE Returned(PyTuple(<<data.name, classified.info>>))

\* execute_query(query), process being the finished query command: the
\* parsed stdout, None when stdout is not JSON
ExecuteQueryResult(process) ==
    IF "json" \in DOMAIN process.stdout THEN Some(process.stdout.json) ELSE None

\* x['result']['totalSize'] raises KeyError when a key is missing
HasTotalSize(x) == "result" \in DOMAIN x /\ "totalSize" \in DOMAIN x.result

\* x goes before the first element of sorted whose totalSize is smaller
RECURSIVE InsertDescending(_, _)
InsertDescending(sorted, x) ==
    IF sorted = <<>> THEN <<x>>
    ELSE IF Head(sorted).result.totalSize >= x.result.totalSize
    THEN <<Head(sorted)>> \o InsertDescending(Tail(sorted), x)
    ELSE <<x>> \o sorted

RECURSIVE SortFrom(_, _, _)
SortFrom(sorted, rs, k) ==
    IF k > Len(rs) THEN sorted
    ELSE SortFrom(InsertDescending(sorted, rs[k]), rs, k + 1)

\* sorted(results_of_queries, key=totalSize, reverse=True): stable
SortedResults(rs) == SortFrom(<<>>, rs, 1)

\* the command lines
CommandLines ==
    [f : BOOLEAN,
     l : {None, Some(<<"A__mdt">>), Some(<<"A__mdt", "B__mdt">>)},
     c : BOOLEAN,
     m : BOOLEAN]

\* outcomes of 'sf org list metadata'
ListingOutcomes ==
    {[returncode |-> 1],
     [returncode |-> 0, data |-> [status |-> 1, name |-> "NoDefaultEnvError"]],
     [returncode |-> 0, data |-> [status |-> 0, result |-> <<>>]],
     [returncode |-> 0,
      data |-> [status |-> 0,
                result |-> <<[fullName |-> "A__mdt"], [fullName |-> "Invoice__c"],
                             [fullName |-> "B__mdt"]>>]]}

\* outcomes of 'sf sobject describe --sobject sObject'
DescribeOutcomes(sObject) ==
    {[returncode |-> 1]} \cup
    {[returncode |-> 0, data |-> [name |-> sObject, fields |-> fs]] :
        fs \in DescribeResponses \cup {<<TextArea300, NoLength>>}}

\* a record of object mdt as the query service returns it
RecordOf(mdt, value) == [attributes |-> [type |-> mdt], F1__c |-> value]

\* outcomes of one 'sf data query'
QueryOutcomes(query) ==
    {[returncode |-> 1, stdout |-> [text |-> ""]],
     [returncode |-> 1,
      stdout |-> [json |-> [status |-> 1, name |-> "INVALID_FIELD"]]],
     [returncode |-> 0,
      stdout |-> [json |-> [status |-> 0,
                            result |-> [totalSize |-> 0, records |-> <<>>]]]],
     [returncode |-> 0,
      stdout |-> [json |-> [status |-> 0,
                            result |-> [totalSize |-> 1,
                                        records |-> <<RecordOf(query.from, JNull)>>]]]],
     [returncode |-> 0,
      stdout |-> [json |-> [status |-> 0,
                            result |-> [totalSize |-> 2,
                                        records |-> <<RecordOf(query.from, JStr("abc")),
                                                      RecordOf(query.from, JStr("abcdef"))>>]]]]}

InitMain ==
    /\ pc = "select"
    /\ exception = None
    /\ exit_status = None
    /\ args \in CommandLines
    /\ mdt_list = <<>>
    /\ described = 0
    /\ executed = 0
    /\ results_of_queries = <<>>
    /\ emitted = {}
    /\ failures = {}
    /\ PlannerIdle /\ ClassifierIdle /\ AggregatorIdle

\* an uncaught exception ends the process with status 1
Crash(exc) ==
    /\ pc' = "crashed"
    /\ exception' = Some(exc)
    /\ exit_status' = Some(1)

\* if args.f: the listing call and filter_cmdt_out
SelectDiscovery ==
    /\ pc = "select"
    /\ args.f
    /\ \E process \in ListingOutcomes :
          LET all_objects == GetAllObjectsFromOrg(process)
              filtered    == FilterCmdtOut(all_objects)
          IN  /\ failures' = failures \cup
                    (IF process.returncode # 0 THEN {"listing_exit"}
                     ELSE IF process.data.status # 0 THEN {"listing_status"}
                     ELSE {})
              /\ IF filtered.exc # None
                 THEN Crash(filtered.exc[1]) /\ UNCHANGED mdt_list
                 ELSE /\ mdt_list' = filtered.value
                      /\ pc' = "describe"
                      /\ UNCHANGED <<exception, exit_status>>
    /\ UNCHANGED <<args, described, executed, results_of_queries, emitted,
                   plannerVars, classifierVars, aggregatorVars>>

\* elif args.l: the list given on the command line
SelectExplicit ==
    /\ pc = "select"
    /\ ~args.f
    /\ args.l # None
    /\ mdt_list' = args.l[1]
    /\ pc' = "describe"
    /\ UNCHANGED <<exception, exit_status, args, described, executed,
                   results_of_queries, emitted, failures,
                   plannerVars, classifierVars, aggregatorVars>>

UsageErrorFallsThrough ==
    /\ pc = "select"
    /\ ~args.f
    /\ args.l = None
    /\ emitted' = emitted \cup {"usage"}
    /\ pc' = "describe"
    /\ UNCHANGED <<exception, exit_status, args, mdt_list, described, executed,
                   results_of_queries, failures,
                   plannerVars, classifierVars, aggregatorVars>>

\* else: the usage message is printed and main returns
UsageError ==
    /\ pc = "select"
    /\ ~args.f
    /\ args.l = None
    /\ emitted' = emitted \cup {"usage"}
    /\ pc' = "exited"
    /\ exit_status' = Some(0)
    /\ UNCHANGED <<exception, args, mdt_list, described, executed,
                   results_of_queries, failures,
                   plannerVars, classifierVars, aggregatorVars>>

\* for sObject_name in mdt_list: res, fields = sObject_get_describe(...)
DescribeObject ==
    /\ pc = "describe"
    /\ described < Len(mdt_list)
    /\ \E process \in DescribeOutcomes(mdt_list[described + 1]) :
          LET r == SObjectGetDescribe(process)
          IN  /\ failures' = failures \cup
                    (IF process.returncode # 0 THEN {"describe_exit"} ELSE {})
              /\ IF r.exc # None
                 THEN Crash(r.exc[1]) /\ UNCHANGED <<described, results_map>>
                 ELSE IF Len(r.value.items) # 2
                 THEN Crash("ValueError") /\ UNCHANGED <<described, results_map>>
                 ELSE /\ results_map' =
                            DictSet(results_map, r.value.items[1], r.value.items[2])
                      /\ described' = described + 1
                      /\ UNCHANGED <<pc, exception, exit_status>>
    /\ UNCHANGED <<args, mdt_list, executed, results_of_queries, emitted,
                   planned, queries, classifierVars, aggregatorVars>>

\* queries = generate_sf_queries(results_map)
PlanQueries ==
    /\ pc = "describe"
    /\ described = Len(mdt_list)
    /\ queries' = GenerateSfQueries(results_map)
    /\ planned' = Len(results_map)
    /\ pc' = "execute"
    /\ UNCHANGED <<exception, results_map, mainVars, classifierVars, aggregatorVars>>

\* for query in queries: a result that is not None is kept
ExecuteQuery ==
    /\ pc = "execute"
    /\ executed < Len(queries)
    /\ \E process \in QueryOutcomes(queries[executed + 1]) :
          LET result == ExecuteQueryResult(process)
          IN  /\ failures' = failures \cup
                    (IF result = None THEN {"query_unparsable"}
                     ELSE IF process.returncode # 0 THEN {"query_exit"}
                     ELSE {})
              /\ results_of_queries' =
                    IF result # None THEN Append(results_of_queries, result[1])
                    ELSE results_of_queries
    /\ executed' = executed + 1
    /\ UNCHANGED <<pc, exception, exit_status, args, mdt_list, described, emitted,
                   plannerVars, classifierVars, aggregatorVars>>

\* sorted_results = sorted(...); field_stats = analyze_field_lengths(...)
AnalyzeResults ==
    /\ pc = "execute"
    /\ executed = Len(queries)
    /\ IF \E k \in 1..Len(results_of_queries) : ~HasTotalSize(results_of_queries[k])
       THEN Crash("KeyError") /\ UNCHANGED <<stats, batches>>
       ELSE /\ stats' = AnalyzeFieldLengths(SortedResults(results_of_queries), results_map)
            /\ batches' = Len(results_of_queries)
            /\ pc' = "output"
            /\ UNCHANGED <<exception, exit_status>>
    /\ UNCHANGED <<args, mdt_list, described, executed, results_of_queries, emitted,
                   failures, record, seen, plannerVars, classifierVars>>

\* the report is written as CSV, printed as a table, or dumped
Output ==
    /\ pc = "output"
    /\ emitted' = emitted \cup (IF args.c THEN {"csv"} ELSE {})
                          \cup (IF args.m THEN {"markdown"} ELSE {})
                          \cup (IF ~args.c /\ ~args.m THEN {"print"} ELSE {})
    /\ pc' = "exited"
    /\ exit_status' = Some(0)
    /\ UNCHANGED <<exception, args, mdt_list, described, executed,
                   results_of_queries, failures,
                   plannerVars, classifierVars, aggregatorVars>>

NextMain ==
    \/ SelectDiscovery
    \/ SelectExplicit
    \/ UsageError
    \/ DescribeObject
    \/ PlanQueries
    \/ ExecuteQuery
    \/ AnalyzeResults
    \/ Output

SpecMain == InitMain /\ [][NextMain]_vars

\* C5: when the describe call of one selected object fails, the object is
\* skipped and the run goes on: a run that met a failed describe call is
\* never in a crashed state.
C5_DescribeFailureSkipped ==
    "describe_exit" \in failures => (pc # "crashed" /\ exception = None)

\* C6: in discovery mode a listing call that fails, or reports a status
\* other than 0, yields an empty object list and the run goes on with no
\* objects instead of crashing.
C6_ListingFailureYieldsEmpty ==
    (failures \cap {"listing_exit", "listing_status"} # {})
        => (pc # "crashed" /\ exception = None /\ mdt_list = <<>>)

\* neither -f nor -l on the command line
NoSelectionMode == ~args.f /\ args.l = None

\* C8 as stated: when neither selection mode is given the process exits
\* with a non-zero status.
C8_UsageExitsNonZero ==
    (NoSelectionMode /\ exit_status # None) => exit_status # Some(0)

\* C8 as amended: when neither selection mode is given, main prints the
\* usage message and returns with nothing described, queried, aggregated or
\* reported, and the process exits with status 0.
C8_UsageReturnsZero ==
    NoSelectionMode =>
        /\ pc \in {"select", "exited"}
        /\ exception = None
        /\ described = 0 /\ executed = 0
        /\ results_map = <<>> /\ queries = <<>> /\ results_of_queries = <<>>
        /\ stats = <<>>
        /\ emitted \subseteq {"usage"}
        /\ pc = "exited" => (exit_status = Some(0) /\ emitted = {"usage"})

\* C8 witness: the run without a selection mode has ended.
C8_Witness ==
    /\ NoSelectionMode
    /\ pc = "exited"
    /\ emitted = {"usage"}
    /\ exit_status = Some(0)

\* C9: a query response that cannot be used as a record batch (unparseable
\* output, or the failure payload of a query that exited non-zero) does not
\* abort the run: a run that met one is never in a crashed state.
C9_UnusableResponseTolerated ==
    (failures \cap {"query_unparsable", "query_exit"} # {})
        => (pc # "crashed" /\ exception = None)

====
